---- MODULE Spec2Model ----
(***************************************************************************)
(* Model of the fetch message core of exercise-tracker-app:                *)
(*   src/src/fetch/headers.ts            Headers                           *)
(*   src/src/fetch/body.ts               Body, consumeBody, clone          *)
(*   src/src/fetch/request.ts            Request                           *)
(*   src/src/fetch/errors/fetch-error.ts FetchError, Response              *)
(*                                                                         *)
(* Strings are sequences of UTF-16 code units (integers), so that          *)
(* toLowerCase, the validation regular expressions and join are computed   *)
(* on characters.  Byte buffers are sequences of integers as well.         *)
(***************************************************************************)
EXTENDS Integers, Sequences, FiniteSets, TLC

VARIABLES
    map,      \* Headers[MAP]: own properties in enumeration order, <<[key, vals]>>
    hist,     \* history: lower-cased name -> "never" | "live" | "deleted"
    hev,      \* history: the last Headers call and what it returned
    bodies,   \* the Body objects: <<[body, disturbed, error, size, timeout]>>
    stream,   \* the byte stream under bodies[1] and what it has emitted
    drain,    \* the closure of the consumeBody call that reads the stream
    calls,    \* the accessor calls made so far and how each has settled
    msgs,     \* the Request and Response objects
    first,    \* history: the first event that can decide the drain
    ev,       \* history: the last clone or constructor call
    db,       \* the users collection and whether its unique index exists
    reqs      \* the create_user requests and where each handler stands

hvars == <<map, hist, hev>>

avars == <<db, reqs>>

bvars == <<bodies, stream, drain, calls, msgs, first, ev, db, reqs>>

vars == <<map, hist, hev, bodies, stream, drain, calls, msgs, first, ev,
          db, reqs>>

-----------------------------------------------------------------------------
(* Bounds of the model *)

\* longest value list one header name may reach through append
MaxVals == 2

\* most data events the stream emits
MaxChunks == 2

\* most accessor calls made
MaxCalls == 2

\* most Request and Response objects made
MaxMsgs == 2

\* most create_user requests received
MaxReqs == 2

-----------------------------------------------------------------------------
(* JavaScript values *)

\* the value undefined (no string holds the code unit -1)
undefined == <<-1>>

\* the value null
null == <<-2>>

\* String.prototype.toLowerCase on one code unit (ASCII and Latin-1 letters)
LowerUnit(c) ==
    IF c >= 65 /\ c <= 90 THEN c + 32
    ELSE IF c >= 192 /\ c <= 222 /\ c # 215 THEN c + 32
    ELSE c

toLowerCase(s) == [i \in 1..Len(s) |-> LowerUnit(s[i])]

\* Array.prototype.join(', ')
RECURSIVE join(_)
join(vals) ==
    IF vals = <<>> THEN <<>>
    ELSE IF Len(vals) = 1 THEN vals[1]
    ELSE vals[1] \o <<44, 32>> \o join(Tail(vals))

\* no stream, a stream that has emitted nothing, no drain, no clone call.
\* The stream is a Node.js Readable: data and end are emitted only once a
\* data listener is attached, nothing follows end but an error, and error is
\* emitted at most once; data and end may still follow an error.
NoStream == [open |-> FALSE, ended |-> FALSE, chunks |-> 0, arrived |-> 0,
             lastErr |-> "none", emitted |-> <<>>]

NewStream == [NoStream EXCEPT !.open = TRUE]

NoDrain == [promise |-> "none", accum |-> <<>>, accumBytes |-> 0,
            abort |-> FALSE, resTimeout |-> "unset", delay |-> 0,
            elapsed |-> 0, call |-> 0]

NoEv == [op |-> "none", src |-> 0, used |-> FALSE, ok |-> TRUE]

\* the users collection before anything is stored and before the unique
\* index on username is built
NoDb == [users |-> <<>>, unique |-> FALSE]

-----------------------------------------------------------------------------
(* headers.ts *)

\* a code unit the class [_`a-zA-Z\-0-9!#$%&'*+.|~] accepts
TokenUnit(c) ==
    \/ c = 95 \/ c = 96
    \/ (c >= 97 /\ c <= 122)
    \/ (c >= 65 /\ c <= 90)
    \/ c = 45
    \/ (c >= 48 /\ c <= 57)
    \/ c \in {33, 35, 36, 37, 38, 39, 42, 43, 46, 124, 126}

\* invalidTokenRegex.test(name)
invalidTokenRegex(name) == \E i \in 1..Len(name) : ~TokenUnit(name[i])

\* invalidHeaderCharRegex.test(value): [^\t -~\u0080-ÿ]
invalidHeaderCharRegex(value) ==
    \E i \in 1..Len(value) :
        ~(\/ value[i] = 9
          \/ (value[i] >= 32 /\ value[i] <= 126)
          \/ (value[i] >= 128 /\ value[i] <= 255))

\* mutant: the empty name passes
validateName_noempty(name) == invalidTokenRegex(name)

\* TRUE when validateName throws
validateName(name) == invalidTokenRegex(name) \/ name = <<>>

\* TRUE when validateValue throws
validateValue(value) == invalidHeaderCharRegex(value)

\* mutant: compares the stored key with the lower-cased query without
\* lower-casing the stored key
find_exact(m, name) ==
    LET lname == toLowerCase(name)
        hits  == {i \in 1..Len(m) : m[i].key = lname}
    IN IF hits = {} THEN undefined
       ELSE m[CHOOSE i \in hits : \A j \in hits : i <= j].key

find(m, name) ==
    LET lname == toLowerCase(name)
        hits  == {i \in 1..Len(m) : toLowerCase(m[i].key) = lname}
    IN IF hits = {} THEN undefined
       ELSE m[CHOOSE i \in hits : \A j \in hits : i <= j].key

\* this[MAP][key]
Prop(m, key) ==
    LET hits == {i \in 1..Len(m) : m[i].key = key}
    IN (m[CHOOSE i \in hits : TRUE]).vals

\* this[MAP][key] = vals: an existing property keeps its place, a new one
\* is added last
Assign(m, key, vals) ==
    IF \E i \in 1..Len(m) : m[i].key = key
    THEN [i \in 1..Len(m) |->
             IF m[i].key = key THEN [key |-> key, vals |-> vals] ELSE m[i]]
    ELSE Append(m, [key |-> key, vals |-> vals])

\* delete this[MAP][key]
SelectSeqNot(m, key) == SelectSeq(m, LAMBDA e : e.key # key)

\* Headers.get: [thrown, ret]
Headers_get(m, name) ==
    IF validateName(name) THEN [thrown |-> TRUE, ret |-> undefined]
    ELSE LET key == find(m, name)
         IN IF key = undefined THEN [thrown |-> FALSE, ret |-> null]
            ELSE LET val == join(Prop(m, key))
                 IN [thrown |-> FALSE,
                     ret |-> IF toLowerCase(name) =
                                  <<99,111,110,116,101,110,116,45,
                                    101,110,99,111,100,105,110,103>>
                             THEN toLowerCase(val) ELSE val]

\* mutant: set stores the value under the casing of the call
Headers_set_newcase(m, name, value) ==
    IF validateName(name) \/ validateValue(value)
    THEN [thrown |-> TRUE, map |-> m]
    ELSE [thrown |-> FALSE, map |-> Assign(m, name, <<value>>)]

\* Headers.set: [thrown, map]
Headers_set(m, name, value) ==
    IF validateName(name) \/ validateValue(value)
    THEN [thrown |-> TRUE, map |-> m]
    ELSE LET key == find(m, name)
         IN [thrown |-> FALSE,
             map |-> Assign(m, IF key # undefined THEN key ELSE name,
                            <<value>>)]

\* mutant: append puts the new value first
Headers_append_front(m, name, value) ==
    IF validateName(name) \/ validateValue(value)
    THEN [thrown |-> TRUE, map |-> m]
    ELSE LET key == find(m, name)
         IN IF key # undefined
            THEN [thrown |-> FALSE,
                  map |-> Assign(m, key, <<value>> \o Prop(m, key))]
            ELSE [thrown |-> FALSE, map |-> Assign(m, name, <<value>>)]

\* Headers.append: [thrown, map]
Headers_append(m, name, value) ==
    IF validateName(name) \/ validateValue(value)
    THEN [thrown |-> TRUE, map |-> m]
    ELSE LET key == find(m, name)
         IN IF key # undefined
            THEN [thrown |-> FALSE,
                  map |-> Assign(m, key, Append(Prop(m, key), value))]
            ELSE [thrown |-> FALSE, map |-> Assign(m, name, <<value>>)]

\* Headers.has: [thrown, ret]
Headers_has(m, name) ==
    IF validateName(name) THEN [thrown |-> TRUE, ret |-> FALSE]
    ELSE [thrown |-> FALSE, ret |-> find(m, name) # undefined]

\* Headers.delete: [thrown, map]
Headers_delete(m, name) ==
    IF validateName(name) THEN [thrown |-> TRUE, map |-> m]
    ELSE LET key == find(m, name)
         IN IF key # undefined
            THEN [thrown |-> FALSE, map |-> SelectSeqNot(m, key)]
            ELSE [thrown |-> FALSE, map |-> m]

\* a < b as Array.prototype.sort() compares two strings: by code units
RECURSIVE StrLess(_, _)
StrLess(a, b) ==
    IF b = <<>> THEN FALSE
    ELSE IF a = <<>> THEN TRUE
    ELSE IF Head(a) # Head(b) THEN Head(a) < Head(b)
    ELSE StrLess(Tail(a), Tail(b))

\* Object.keys(this[MAP]): the property names in enumeration order
Object_keys(m) == [i \in 1..Len(m) |-> m[i].key]

\* Array.prototype.sort() on distinct strings
RECURSIVE sort(_)
sort(keys) ==
    IF keys = <<>> THEN <<>>
    ELSE LET least == CHOOSE i \in 1..Len(keys) :
                          \A j \in 1..Len(keys) : ~StrLess(keys[j], keys[i])
         IN <<keys[least]>> \o
            sort([i \in 1..(Len(keys) - 1) |->
                     IF i < least THEN keys[i] ELSE keys[i + 1]])

\* Headers.keys: the items the generator yields
Headers_keys(m) == sort(Object_keys(m))

\* Headers.values: the items the generator yields
Headers_values(m) ==
    [i \in 1..Len(m) |-> join(Prop(m, Headers_keys(m)[i]))]

\* Headers[Symbol.iterator]: the items the generator yields
Headers_iterator(m) ==
    [i \in 1..Len(m) |->
        <<Headers_keys(m)[i], Headers_get(m, Headers_keys(m)[i]).ret>>]

\* Headers.entries
Headers_entries(m) == Headers_iterator(m)

\* new Headers(init) from a Headers object: every value appended in order
RECURSIVE AppendAll(_, _, _)
AppendAll(m, name, vals) ==
    IF vals = <<>> THEN m
    ELSE AppendAll(Headers_append(m, name, Head(vals)).map, name, Tail(vals))

RECURSIVE CopyHeaders(_, _)
CopyHeaders(m, raw) ==
    IF raw = <<>> THEN m
    ELSE CopyHeaders(AppendAll(m, Head(raw).key, Head(raw).vals), Tail(raw))

Headers_new(init) == IF init.given THEN CopyHeaders(<<>>, init.map) ELSE <<>>

-----------------------------------------------------------------------------
(* The calls a client makes on one Headers object *)

\* "a", "A", "Content-Encoding", "" and "a "
Names ==
    { <<97>>, <<65>>,
      <<67,111,110,116,101,110,116,45,69,110,99,111,100,105,110,103>>,
      <<>>, <<97, 32>> }

\* "x", "Y" and "\n"
Values == { <<120>>, <<89>>, <<10>> }

LowerNames == {toLowerCase(n) : n \in {x \in Names : ~validateName(x)}}

\* the value lists stay within MaxVals
CanAppend(m, name) ==
    LET key == find(m, name)
    IN IF key = undefined THEN TRUE ELSE Len(Prop(m, key)) < MaxVals

Call(op, name, value, thrown, ret) ==
    [op |-> op, name |-> name, value |-> value, thrown |-> thrown, ret |-> ret]

Mark(h, name, thrown, what) ==
    IF thrown THEN h ELSE [h EXCEPT ![toLowerCase(name)] = what]

HGet(name) ==
    /\ hev' = Call("get", name, undefined, Headers_get(map, name).thrown,
                   Headers_get(map, name).ret)
    /\ UNCHANGED <<map, hist>>
    /\ UNCHANGED bvars

HHas(name) ==
    /\ hev' = Call("has", name, undefined, Headers_has(map, name).thrown,
                   IF Headers_has(map, name).ret THEN <<1>> ELSE <<0>>)
    /\ UNCHANGED <<map, hist>>
    /\ UNCHANGED bvars

HSet(name, value) ==
    LET r == Headers_set(map, name, value)
    IN /\ map' = r.map
       /\ hist' = Mark(hist, name, r.thrown, "live")
       /\ hev' = Call("set", name, value, r.thrown, undefined)
       /\ UNCHANGED bvars

HAppend(name, value) ==
    LET r == Headers_append(map, name, value)
    IN /\ CanAppend(map, name)
       /\ map' = r.map
       /\ hist' = Mark(hist, name, r.thrown, "live")
       /\ hev' = Call("append", name, value, r.thrown, undefined)
       /\ UNCHANGED bvars

HDelete(name) ==
    LET r == Headers_delete(map, name)
    IN /\ map' = r.map
       /\ hist' = Mark(hist, name, r.thrown, "deleted")
       /\ hev' = Call("delete", name, undefined, r.thrown, undefined)
       /\ UNCHANGED bvars

\* keys(), values() or entries(), iterated to the end
HIterate(kind) ==
    /\ hev' = Call(kind, undefined, undefined, FALSE,
                   CASE kind = "keys" -> Headers_keys(map)
                     [] kind = "values" -> Headers_values(map)
                     [] kind = "entries" -> Headers_entries(map))
    /\ UNCHANGED <<map, hist>>
    /\ UNCHANGED bvars

\* the initializers of new Headers(init): none, and the record
\* {a: 'x', A: 'Y'}
HeadersInits ==
    { <<>>,
      << [key |-> <<97>>, vals |-> << <<120>> >>],
         [key |-> <<65>>, vals |-> << <<89>> >>] >> }

InitHeaders ==
    /\ \E init \in HeadersInits :
          /\ map = CopyHeaders(<<>>, init)
          /\ hist = [n \in LowerNames |->
                        IF \E i \in 1..Len(init) : toLowerCase(init[i].key) = n
                        THEN "live" ELSE "never"]
    /\ hev = Call("new", undefined, undefined, FALSE, undefined)
    /\ bodies = <<>>
    /\ stream = NoStream
    /\ drain = NoDrain
    /\ calls = <<>>
    /\ msgs = <<>>
    /\ first = "none"
    /\ ev = NoEv
    /\ db = NoDb
    /\ reqs = <<>>

NextHeaders ==
    \/ \E n \in Names : HGet(n)
    \/ \E n \in Names : HHas(n)
    \/ \E n \in Names, v \in Values : HSet(n, v)
    \/ \E n \in Names, v \in Values : HAppend(n, v)
    \/ \E n \in Names : HDelete(n)
    \/ \E kind \in {"keys", "values", "entries"} : HIterate(kind)

SpecHeaders == InitHeaders /\ [][NextHeaders]_vars

-----------------------------------------------------------------------------
(* body.ts *)

\* Buffer.from(string): UTF-8 encoding of code units below U+0800
RECURSIVE Buffer_from(_)
Buffer_from(str) ==
    IF str = <<>> THEN <<>>
    ELSE IF Head(str) < 128 THEN <<Head(str)>> \o Buffer_from(Tail(str))
    ELSE <<192 + (Head(str) \div 64), 128 + (Head(str) % 64)>>
             \o Buffer_from(Tail(str))

\* buf.toString(): UTF-8 decoding of a buffer of single-byte sequences; a
\* byte that starts no complete sequence decodes to U+FFFD
Buffer_toString(buf) ==
    [i \in 1..Len(buf) |-> IF buf[i] < 128 THEN buf[i] ELSE 65533]

\* Buffer.concat(list, totalLength): the chunks in order, cut or zero-filled
\* to totalLength
RECURSIVE Flatten(_)
Flatten(list) ==
    IF list = <<>> THEN <<>> ELSE Head(list) \o Flatten(Tail(list))

Buffer_concat(list, totalLength) ==
    [i \in 1..totalLength |->
        IF i <= Len(Flatten(list)) THEN Flatten(list)[i] ELSE 0]

\* JSON.parse(text) on texts of the model: a text of digits 1-9 is a number,
\* every other text of the model (empty, "{1", "[object Response]") throws
JSON_parse(text) ==
    IF text # <<>> /\ \A i \in 1..Len(text) : text[i] >= 49 /\ text[i] <= 57
    THEN [thrown |-> FALSE, value |-> [t |-> "number", data |-> text]]
    ELSE [thrown |-> TRUE, value |-> [t |-> "none", data |-> <<>>]]

NoValue == [t |-> "none", data |-> <<>>]

\* what each accessor makes of the bytes consumeBody returns
Accessor(accessor, buf) ==
    CASE accessor = "arrayBuffer" ->
            [thrown |-> FALSE, value |-> [t |-> "ArrayBuffer", data |-> buf]]
      [] accessor = "blob" ->
            [thrown |-> FALSE, value |-> [t |-> "Blob", data |-> buf]]
      [] accessor = "json" -> JSON_parse(Buffer_toString(buf))
      [] accessor = "text" ->
            [thrown |-> FALSE,
             value |-> [t |-> "string", data |-> Buffer_toString(buf)]]
      [] accessor = "buffer" ->
            [thrown |-> FALSE, value |-> [t |-> "Buffer", data |-> buf]]

\* isAbortError(err)
isAbortError(err) == err = "AbortError"

\* Body constructor: the kinds of init the model uses
Body_new(init, size, timeout) ==
    [body |->
        CASE init.t = "null" -> [kind |-> "null", bytes |-> <<>>]
          [] init.t = "buffer" -> [kind |-> "buffer", bytes |-> init.data]
          [] init.t = "stream" -> [kind |-> "stream", bytes |-> <<>>]
          [] OTHER -> [kind |-> "buffer", bytes |-> Buffer_from(init.data)],
     disturbed |-> FALSE,
     error |-> "null",
     size |-> size,
     timeout |-> timeout]

\* the error listener the Body constructor puts on its stream
Body_onError(bd, err) ==
    [bd EXCEPT !.error = IF isAbortError(err) THEN err ELSE "system"]

\* mutant: a later resolve or reject replaces the outcome
Settle_last(d, outcome) == [d EXCEPT !.promise = outcome]

\* resolve() and reject(): only the first call settles the promise
Settle(d, outcome) ==
    IF d.promise = "pending" THEN [d EXCEPT !.promise = outcome] ELSE d

\* mutant: the timer is armed with no delay
startDrain_nodelay(timeout, call) ==
    [NoDrain EXCEPT !.promise = "pending",
                    !.resTimeout = IF timeout # 0 THEN "armed" ELSE "unset",
                    !.delay = 0,
                    !.call = call]

\* consumeBody, lines 194-215: the accumulators and the timer
startDrain(timeout, call) ==
    [NoDrain EXCEPT !.promise = "pending",
                    !.resTimeout = IF timeout # 0 THEN "armed" ELSE "unset",
                    !.delay = timeout,
                    !.call = call]

\* mutant: the timer callback aborts the drain without rejecting
onTimeout_noreject(d) == [d EXCEPT !.abort = TRUE, !.resTimeout = "fired"]

\* the setTimeout callback of consumeBody
onTimeout(d) ==
    Settle([d EXCEPT !.abort = TRUE, !.resTimeout = "fired"], "body-timeout")

\* the 'error' listener of consumeBody
onError(d, err) ==
    IF isAbortError(err)
    THEN Settle([d EXCEPT !.abort = TRUE], "AbortError")
    ELSE Settle(d, "system")

\* mutant: the cap is compared with >=
onData_ge(d, chunk, size) ==
    IF d.abort \/ chunk = null THEN d
    ELSE IF size # 0 /\ d.accumBytes + Len(chunk) >= size
    THEN Settle([d EXCEPT !.abort = TRUE], "max-size")
    ELSE [d EXCEPT !.accumBytes = @ + Len(chunk),
                   !.accum = Append(@, chunk)]

\* mutant: a chunk is put before the chunks accumulated so far
onData_unshift(d, chunk, size) ==
    IF d.abort \/ chunk = null THEN d
    ELSE IF size # 0 /\ d.accumBytes + Len(chunk) > size
    THEN Settle([d EXCEPT !.abort = TRUE], "max-size")
    ELSE [d EXCEPT !.accumBytes = @ + Len(chunk),
                   !.accum = <<chunk>> \o @]

\* the 'data' listener of consumeBody
onData(d, chunk, size) ==
    IF d.abort \/ chunk = null THEN d
    ELSE IF size # 0 /\ d.accumBytes + Len(chunk) > size
    THEN Settle([d EXCEPT !.abort = TRUE], "max-size")
    ELSE [d EXCEPT !.accumBytes = @ + Len(chunk),
                   !.accum = Append(@, chunk)]

\* mutant: the end listener leaves the timer running
onEnd_keeptimer(d) == IF d.abort THEN d ELSE Settle(d, "resolved")

\* the 'end' listener of consumeBody
onEnd(d) ==
    IF d.abort THEN d
    ELSE Settle([d EXCEPT !.resTimeout = IF @ = "armed" THEN "cleared" ELSE @],
                "resolved")

NewCall(b, via, accessor, pre) ==
    [on |-> b, via |-> via, accessor |-> accessor, state |-> "pending",
     error |-> "none", value |-> NoValue, pre |-> pre]

Fulfil(c, buf) ==
    LET r == Accessor(c.accessor, buf)
    IN IF r.thrown THEN [c EXCEPT !.state = "rejected", !.error = "SyntaxError"]
       ELSE [c EXCEPT !.state = "fulfilled", !.value = r.value]

Reject(c, error) == [c EXCEPT !.state = "rejected", !.error = error]

\* the rest of consumeBody and of the accessor once the promise settles
Resume(cs, d, dd) ==
    IF d.promise = dd.promise \/ dd.call = 0 THEN cs
    ELSE [cs EXCEPT ![dd.call] =
            IF dd.promise = "resolved"
            THEN Fulfil(@, Buffer_concat(dd.accum, dd.accumBytes))
            ELSE Reject(@, dd.promise)]

\* mutant: the body is marked disturbed only after the recorded error is
\* thrown
consumeBody_errfirst(bd, c) ==
    IF bd.disturbed
    THEN [bd |-> bd, call |-> Reject(c, "used"), drain |-> FALSE]
    ELSE IF bd.error # "null"
    THEN [bd |-> bd, call |-> Reject(c, bd.error), drain |-> FALSE]
    ELSE IF bd.body.kind = "stream"
    THEN [bd |-> [bd EXCEPT !.disturbed = TRUE], call |-> c, drain |-> TRUE]
    ELSE [bd |-> [bd EXCEPT !.disturbed = TRUE],
          call |-> Fulfil(c, bd.body.bytes), drain |-> FALSE]

\* mutant: the body is marked disturbed when the bytes are returned
consumeBody_latemark(bd, c) ==
    IF bd.disturbed
    THEN [bd |-> bd, call |-> Reject(c, "used"), drain |-> FALSE]
    ELSE IF bd.error # "null"
    THEN [bd |-> [bd EXCEPT !.disturbed = TRUE],
          call |-> Reject(c, bd.error), drain |-> FALSE]
    ELSE IF bd.body.kind = "stream"
    THEN [bd |-> bd, call |-> c, drain |-> TRUE]
    ELSE [bd |-> [bd EXCEPT !.disturbed = TRUE],
          call |-> Fulfil(c, bd.body.bytes), drain |-> FALSE]

\* consumeBody up to its first await: [bd, call, drain], drain TRUE when
\* the call goes on to read the stream
consumeBody(bd, c) ==
    IF bd.disturbed
    THEN [bd |-> bd, call |-> Reject(c, "used"), drain |-> FALSE]
    ELSE IF bd.error # "null"
    THEN [bd |-> [bd EXCEPT !.disturbed = TRUE],
          call |-> Reject(c, bd.error), drain |-> FALSE]
    ELSE IF bd.body.kind = "stream"
    THEN [bd |-> [bd EXCEPT !.disturbed = TRUE], call |-> c, drain |-> TRUE]
    ELSE [bd |-> [bd EXCEPT !.disturbed = TRUE],
          call |-> Fulfil(c, bd.body.bytes), drain |-> FALSE]

-----------------------------------------------------------------------------
(* One Body and the events of its stream *)

\* "1" and "{1"
Chunks == { <<49>>, <<123, 49>>, null }

\* chunk.length of a chunk that is not null
ByteLength(chunk) == IF chunk = null THEN 0 ELSE Len(chunk)

SizeCaps == {0, 2}

Timeouts == {0, 1}

Accessors == {"arrayBuffer", "blob", "json", "text", "buffer"}

StreamErrors == {"Error", "AbortError"}

BodyInits ==
    { [t |-> "null", data |-> <<>>],
      [t |-> "buffer", data |-> <<49, 49>>],
      [t |-> "stream", data |-> <<>>] }

\* the first of end, over-cap chunk, timer expiry and error after the drain
\* began
First(what) == IF first = "none" /\ drain.promise # "none" THEN what ELSE first

\* an accessor is called on bodies[b], directly (via = 0) or through msgs[via]
Consume(b, via, accessor) ==
    LET n == Len(calls) + 1
        r == consumeBody(bodies[b], NewCall(b, via, accessor, stream.lastErr))
    IN /\ Len(calls) < MaxCalls
       /\ bodies' = [bodies EXCEPT ![b] = r.bd]
       /\ calls' = Append(calls, r.call)
       /\ drain' = IF r.drain THEN startDrain(bodies[b].timeout, n) ELSE drain
       /\ ev' = NoEv
       /\ UNCHANGED <<stream, msgs, first>>
       /\ UNCHANGED <<hvars, avars>>

BodyCall(accessor) == Consume(1, 0, accessor)

StreamData(chunk) ==
    LET dd == onData(drain, chunk, bodies[1].size)
    IN /\ stream.open /\ ~stream.ended
       /\ drain.promise # "none"
       /\ stream.chunks < MaxChunks
       /\ stream' = [stream EXCEPT !.chunks = @ + 1,
                                   !.arrived = @ + ByteLength(chunk),
                                   !.emitted = Append(@, chunk)]
       /\ drain' = dd
       /\ calls' = Resume(calls, drain, dd)
       /\ first' = IF bodies[1].size # 0
                      /\ stream.arrived + ByteLength(chunk) > bodies[1].size
                   THEN First("over-cap") ELSE first
       /\ ev' = NoEv
       /\ UNCHANGED <<bodies, msgs>>
       /\ UNCHANGED <<hvars, avars>>

StreamEnd ==
    LET dd == onEnd(drain)
    IN /\ stream.open /\ ~stream.ended
       /\ drain.promise # "none"
       /\ stream' = [stream EXCEPT !.ended = TRUE]
       /\ drain' = dd
       /\ calls' = Resume(calls, drain, dd)
       /\ first' = First("end")
       /\ ev' = NoEv
       /\ UNCHANGED <<bodies, msgs>>
       /\ UNCHANGED <<hvars, avars>>

StreamError(err) ==
    LET dd == IF drain.promise # "none" THEN onError(drain, err) ELSE drain
    IN /\ stream.open
       /\ stream.lastErr = "none"
       /\ stream' = [stream EXCEPT !.lastErr = err]
       /\ bodies' = [bodies EXCEPT ![1] = Body_onError(@, err)]
       /\ drain' = dd
       /\ calls' = Resume(calls, drain, dd)
       /\ first' = First("error")
       /\ ev' = NoEv
       /\ UNCHANGED msgs
       /\ UNCHANGED <<hvars, avars>>

\* time passes while the timer is armed
Tick ==
    /\ drain.resTimeout = "armed"
    /\ drain.elapsed < drain.delay
    /\ drain' = [drain EXCEPT !.elapsed = @ + 1]
    /\ ev' = NoEv
    /\ UNCHANGED <<bodies, stream, calls, msgs, first>>
    /\ UNCHANGED <<hvars, avars>>

\* the timer set by setTimeout(f, delay) runs f once delay has elapsed
TimerFire ==
    LET dd == onTimeout(drain)
    IN /\ drain.resTimeout = "armed"
       /\ drain.elapsed >= drain.delay
       /\ drain' = dd
       /\ calls' = Resume(calls, drain, dd)
       /\ first' = First("timer")
       /\ ev' = NoEv
       /\ UNCHANGED <<bodies, stream, msgs>>
       /\ UNCHANGED <<hvars, avars>>

InitBody ==
    /\ map = <<>>
    /\ hist = [n \in LowerNames |-> "never"]
    /\ hev = Call("new", undefined, undefined, FALSE, undefined)
    /\ \E init \in BodyInits, size \in SizeCaps, timeout \in Timeouts :
          /\ init.t # "stream" => size = 0 /\ timeout = 0
          /\ bodies = <<Body_new(init, size, timeout)>>
          /\ stream = IF init.t = "stream" THEN NewStream ELSE NoStream
    /\ drain = NoDrain
    /\ calls = <<>>
    /\ msgs = <<>>
    /\ first = "none"
    /\ ev = NoEv
    /\ db = NoDb
    /\ reqs = <<>>

NextBody ==
    \/ \E a \in Accessors : BodyCall(a)
    \/ \E c \in Chunks : StreamData(c)
    \/ StreamEnd
    \/ \E e \in StreamErrors : StreamError(e)
    \/ Tick
    \/ TimerFire

SpecBody == InitBody /\ [][NextBody]_vars

\* the drain of a stream body on its own: the body is read as bytes or as
\* text
InitDrain == InitBody /\ bodies[1].body.kind = "stream"

NextDrain ==
    \/ \E a \in {"buffer", "text"} : BodyCall(a)
    \/ \E c \in Chunks : StreamData(c)
    \/ StreamEnd
    \/ \E e \in StreamErrors : StreamError(e)
    \/ Tick
    \/ TimerFire

\* time passes, and the event loop runs a timer that is due: the stream is
\* under no obligation to emit anything
SpecDrain ==
    InitDrain /\ [][NextDrain]_vars /\ WF_vars(Tick) /\ WF_vars(TimerFire)

-----------------------------------------------------------------------------
(* request.ts and the Response class of errors/fetch-error.ts *)

\* "GET", "HEAD", "Content-Type", "text/plain;charset=UTF-8"
GET == <<71,69,84>>

HEAD == <<72,69,65,68>>

ContentType == <<67,111,110,116,101,110,116,45,84,121,112,101>>

TextPlain ==
    <<116,101,120,116,47,112,108,97,105,110,59,99,104,97,114,115,101,116,
      61,85,84,70,45,56>>

\* String(response): "[object Response]", from Symbol.toStringTag
ObjectResponse == <<91,111,98,106,101,99,116,32,82,101,115,112,111,110,115,101,93>>

\* mutant: the method is compared as it was given
toUpperCase_asis(str) == str

\* String.prototype.toUpperCase on ASCII and Latin-1 letters
toUpperCase(str) ==
    [i \in 1..Len(str) |->
        IF str[i] >= 97 /\ str[i] <= 122 THEN str[i] - 32
        ELSE IF str[i] >= 224 /\ str[i] <= 254 /\ str[i] # 247 THEN str[i] - 32
        ELSE str[i]]

\* a body value that is not given, and the Body instance as a body value
NoBodyInit == [t |-> "undefined", data |-> <<>>]

ABody == [t |-> "Body", data |-> <<>>]

\* the options object {}
NoInit ==
    [method |-> undefined, body |-> NoBodyInit,
     headers |-> [given |-> FALSE, map |-> <<>>, obj |-> 0],
     signal |-> "undefined", redirect |-> "undefined", follow |-> -1,
     compress |-> "undefined", counter |-> 0, timeout |-> 0, size |-> 0,
     agent |-> "undefined"]

\* the object {} that stands for an input that is no Request
NotARequest ==
    [type |-> "none", body |-> 0, method |-> undefined, url |-> "",
     headers |-> [given |-> FALSE, map |-> <<>>, obj |-> 0],
     redirect |-> "undefined", follow |-> -1, compress |-> "undefined",
     counter |-> 0, signal |-> "undefined", timeout |-> 0,
     agent |-> "undefined",
     status |-> 0, statusText |-> <<>>, cloneOf |-> 0, ofStream |-> FALSE]

\* isRequest(obj)
isRequest(obj) == obj.type = "Request"

\* mutant: every object passes
isAbortSignal_any(signal) == TRUE

\* isAbortSignal(obj)
isAbortSignal(signal) == signal = "AbortSignal"

\* mutant: the Headers object given as init is taken over as it is
Headers_object_shared(init, m) ==
    IF init.given THEN [init EXCEPT !.map = m]
    ELSE [given |-> TRUE, map |-> m, obj |-> 0]

\* the Headers object a constructor has made with new Headers(init) and
\* filled to content m: a new object (obj 0 until it is given its identity)
Headers_object(init, m) == [given |-> TRUE, map |-> m, obj |-> 0]

\* extractContentType(body); a Body instance is none of the recognised
\* shapes and falls through to the last return
extractContentType(body) ==
    CASE body.t \in {"undefined", "null"} -> null
      [] body.t = "string" -> TextPlain
      [] body.t = "buffer" -> null
      [] body.t = "stream" -> null
      [] OTHER -> TextPlain

\* mutant: clone accepts a used body
clone_used(body) == [thrown |-> FALSE, ret |-> body.ref]

\* clone(body): body is a Body or a Response, never a Stream, so the tee
\* branch is not taken and the argument itself is returned
clone(body) == [thrown |-> body.bodyUsed, ret |-> body.ref]

\* Request.bodyUsed and Response.bodyUsed
bodyUsed(bs, msg) == IF msg.body = 0 THEN FALSE ELSE bs[msg.body].disturbed

\* new Request(input, init): [thrown, msg, bodies]
Request_new(input, href, init, bs) ==
    LET method0 == IF init.method # undefined /\ init.method # <<>>
                   THEN init.method
                   ELSE IF input.method # undefined /\ input.method # <<>>
                   THEN input.method ELSE GET
        method == toUpperCase(method0)
        hasBody == \/ init.body.t \notin {"undefined", "null"}
                   \/ (isRequest(input) /\ input.body # 0)
        fromInit == init.body.t \notin {"undefined", "null"}
        cloned == clone([bodyUsed |-> bs[input.body].disturbed,
                         ref |-> input.body])
        useClone == ~fromInit /\ isRequest(input) /\ input.body # 0
        ref == IF useClone THEN cloned.ret ELSE Len(bs) + 1
        bs1 == IF useClone THEN bs
               ELSE Append(bs, Body_new(IF fromInit THEN init.body
                                        ELSE [t |-> "null", data |-> <<>>],
                                        0, 0))
        tmo == IF init.timeout # 0 THEN init.timeout ELSE input.timeout
        siz == IF init.size # 0 THEN init.size
               ELSE IF isRequest(input) /\ input.body # 0
               THEN bs[input.body].size ELSE 0
        bs2 == [bs1 EXCEPT ![ref].timeout = tmo, ![ref].size = siz]
        inputBody == IF fromInit THEN init.body
                     ELSE IF useClone THEN ABody
                     ELSE [t |-> "null", data |-> <<>>]
        h0 == Headers_new(IF init.headers.given THEN init.headers
                          ELSE input.headers)
        ct == extractContentType(inputBody)
        headers == IF inputBody.t # "null" /\ ~Headers_has(h0, ContentType).ret
                      /\ ct # null
                   THEN Headers_append(h0, ContentType, ct).map ELSE h0
        signal0 == IF isRequest(input) THEN input.signal ELSE "null"
        signal == IF init.signal # "undefined" THEN init.signal ELSE signal0
        failed == [thrown |-> TRUE, msg |-> NotARequest, bodies |-> bs]
    IN IF hasBody /\ method \in {GET, HEAD} THEN failed
       ELSE IF useClone /\ cloned.thrown THEN failed
       ELSE IF signal # "null" /\ ~isAbortSignal(signal)
       THEN [failed EXCEPT !.bodies = IF useClone THEN bs2 ELSE bs]
       ELSE [thrown |-> FALSE,
             bodies |-> bs2,
             msg |-> [type |-> "Request",
                      body |-> ref,
                      method |-> method,
                      url |-> IF isRequest(input) THEN input.url ELSE href,
                      headers |-> Headers_object(
                                      IF init.headers.given THEN init.headers
                                      ELSE input.headers, headers),
                      agent |-> IF init.agent # "undefined" THEN init.agent
                                ELSE input.agent,
                      redirect |-> IF init.redirect # "undefined"
                                   THEN init.redirect
                                   ELSE IF input.redirect # "undefined"
                                   THEN input.redirect ELSE "follow",
                      follow |-> IF init.follow # -1 THEN init.follow
                                 ELSE IF input.follow # -1 THEN input.follow
                                 ELSE 20,
                      compress |-> IF init.compress # "undefined"
                                   THEN init.compress
                                   ELSE IF input.compress # "undefined"
                                   THEN input.compress ELSE "true",
                      counter |-> IF init.counter # 0 THEN init.counter
                                  ELSE input.counter,
                      signal |-> signal,
                      timeout |-> 0,
                      status |-> 0,
                      statusText |-> <<>>,
                      cloneOf |-> 0,
                      ofStream |-> FALSE]]

\* new Response(bodyIn, opts): [msg, bodies]; opts gives status, statusText,
\* headers, counter and url (size and timeout are not read)
Response_new(bodyIn, opts, bs) ==
    LET truthy == /\ bodyIn.t \notin {"undefined", "null"}
                  /\ ~(bodyIn.t = "string" /\ bodyIn.data = <<>>)
        ref == IF truthy THEN Len(bs) + 1 ELSE 0
        bs1 == IF truthy THEN Append(bs, Body_new(bodyIn, 0, 0)) ELSE bs
        h0 == Headers_new(opts.headers)
        ct == extractContentType(ABody)
        headers == IF ref # 0 /\ ~Headers_has(h0, ContentType).ret /\ ct # null
                   THEN Headers_append(h0, ContentType, ct).map ELSE h0
    IN [bodies |-> bs1,
        msg |-> [NotARequest EXCEPT
                    !.type = "Response",
                    !.body = ref,
                    !.status = opts.status,
                    !.statusText = opts.statusText,
                    !.headers = Headers_object(opts.headers, headers),
                    !.counter = opts.counter,
                    !.url = opts.url]]

\* the options {} of new Response(body) with the defaults of ?? applied;
\* the counter -1 is a counter that is undefined
NoOpts == [status |-> 200, statusText |-> <<>>,
           headers |-> [given |-> FALSE, map |-> <<>>, obj |-> 0], counter |-> -1,
           url |-> ""]

\* Response.redirected: this.counter ?? 0 > 0, which is
\* this.counter ?? (0 > 0): the counter itself unless it is undefined
redirected(this) ==
    IF this.counter # -1 THEN [t |-> "number", v |-> this.counter]
    ELSE [t |-> "boolean", v |-> 0]

\* Response.clone: [thrown, msg, bodies]
Response_clone(this, bs) ==
    LET cloned == clone([bodyUsed |-> bodyUsed(bs, this), ref |-> 0])
        r == Response_new([t |-> "Response", data |-> ObjectResponse],
                          [status |-> this.status,
                           statusText |-> this.statusText,
                           headers |-> this.headers,
                           counter |-> -1,
                           url |-> this.url],
                          bs)
    IN IF cloned.thrown
       THEN [thrown |-> TRUE, msg |-> NotARequest, bodies |-> bs]
       ELSE [thrown |-> FALSE, msg |-> r.msg, bodies |-> r.bodies]

\* Request.clone
Request_clone(this, bs) == Request_new(this, this.url, NoInit, bs)

\* parse(href) of the url module, on the URLs of the model
parseUrl(href) ==
    CASE href = "https://example.com/x" ->
            [protocol |-> "https:", hostname |-> "example.com"]
      [] href = "http://example.com/x" ->
            [protocol |-> "http:", hostname |-> "example.com"]
      [] href = "ftp://example.com/x" ->
            [protocol |-> "ftp:", hostname |-> "example.com"]
      [] OTHER -> [protocol |-> "null", hostname |-> "null"]

\* String(n) for a number n >= 0
RECURSIVE NumberToString(_)
NumberToString(n) ==
    IF n < 10 THEN <<48 + n>> ELSE NumberToString(n \div 10) \o <<48 + (n % 10)>>

\* getTotalBytes({body}): [known, n]; a Body instance is neither null, nor a
\* Blob, nor a Buffer, and has no getLengthSync, so it reaches the last return
getTotalBytes(body) ==
    CASE body.t \in {"undefined", "null"} -> [known |-> TRUE, n |-> 0]
      [] body.t = "buffer" -> [known |-> TRUE, n |-> Len(body.data)]
      [] OTHER -> [known |-> FALSE, n |-> 0]

\* "Accept", "*/*", "Content-Length", "User-Agent", the node-fetch agent
\* string, "Accept-Encoding", "gzip,deflate", "Connection", "close", "Host"
Accept == <<65,99,99,101,112,116>>

AnyType == <<42,47,42>>

ContentLength == <<67,111,110,116,101,110,116,45,76,101,110,103,116,104>>

UserAgent == <<85,115,101,114,45,65,103,101,110,116>>

NodeFetch ==
    <<110,111,100,101,45,102,101,116,99,104,32,40,43,104,116,116,112,115,58,
      47,47,103,105,116,104,117,98,46,99,111,109,47,110,111,100,101,45,102,
      101,116,99,104,47,110,111,100,101,45,102,101,116,99,104,41>>

AcceptEncoding == <<65,99,99,101,112,116,45,69,110,99,111,100,105,110,103>>

GzipDeflate == <<103,122,105,112,44,100,101,102,108,97,116,101>>

Connection == <<67,111,110,110,101,99,116,105,111,110>>

Close == <<99,108,111,115,101>>

Host == <<72,111,115,116>>

\* Headers.exportNodeCompatibleHeaders: the stored names and value lists,
\* the Host header cut to its first value
exportNodeCompatibleHeaders(m) ==
    LET hostHeaderKey == find(m, Host)
    IN [i \in 1..Len(m) |->
           IF m[i].key = hostHeaderKey
           THEN [key |-> m[i].key, vals |-> <<m[i].vals[1]>>] ELSE m[i]]

\* the header name is absent: set(name, value), else nothing
SetIfAbsent(m, name, value) ==
    IF Headers_has(m, name).ret THEN m ELSE Headers_set(m, name, value).map

\* mutant: Connection is set whether or not the request carries it
getNodeRequestOptions_forceclose(request) ==
    LET parsedURL == parseUrl(request.url)
        h1 == SetIfAbsent(Headers_new(request.headers), Accept, AnyType)
        noBody == request.body = 0
        isPostOrPut == toUpperCase(request.method) \in {<<80,79,83,84>>, <<80,85,84>>}
        totalBytes == getTotalBytes(ABody)
        contentLengthValue ==
            IF ~noBody /\ totalBytes.known THEN NumberToString(totalBytes.n)
            ELSE IF noBody /\ isPostOrPut THEN <<48>>
            ELSE null
        h2 == IF contentLengthValue # null
              THEN Headers_set(h1, ContentLength, contentLengthValue).map
              ELSE h1
        h3 == SetIfAbsent(h2, UserAgent, NodeFetch)
        h4 == IF request.compress = "true"
              THEN SetIfAbsent(h3, AcceptEncoding, GzipDeflate) ELSE h3
        agent == IF request.agent = "function" THEN "Agent" ELSE request.agent
        h5 == IF agent = "undefined"
              THEN Headers_set(h4, Connection, Close).map ELSE h4
        failed == [thrown |-> TRUE, headers |-> <<>>, method |-> undefined,
                   agent |-> "undefined"]
    IN [request |-> request,
        options |->
            IF parsedURL.protocol = "null" \/ parsedURL.hostname = "null"
            THEN failed
            ELSE IF parsedURL.protocol \notin {"http:", "https:"}
            THEN failed
            ELSE [thrown |-> FALSE,
                  headers |-> exportNodeCompatibleHeaders(h5),
                  method |-> request.method,
                  agent |-> agent]]

\* mutant: Accept is set on the headers of the request itself
getNodeRequestOptions_nocopy(request) ==
    LET parsedURL == parseUrl(request.url)
        h1 == SetIfAbsent(Headers_new(request.headers), Accept, AnyType)
        noBody == request.body = 0
        isPostOrPut == toUpperCase(request.method) \in {<<80,79,83,84>>, <<80,85,84>>}
        totalBytes == getTotalBytes(ABody)
        contentLengthValue ==
            IF ~noBody /\ totalBytes.known THEN NumberToString(totalBytes.n)
            ELSE IF noBody /\ isPostOrPut THEN <<48>>
            ELSE null
        h2 == IF contentLengthValue # null
              THEN Headers_set(h1, ContentLength, contentLengthValue).map
              ELSE h1
        h3 == SetIfAbsent(h2, UserAgent, NodeFetch)
        h4 == IF request.compress = "true"
              THEN SetIfAbsent(h3, AcceptEncoding, GzipDeflate) ELSE h3
        agent == IF request.agent = "function" THEN "Agent" ELSE request.agent
        h5 == IF ~Headers_has(h4, Connection).ret /\ agent = "undefined"
              THEN Headers_set(h4, Connection, Close).map ELSE h4
        failed == [thrown |-> TRUE, headers |-> <<>>, method |-> undefined,
                   agent |-> "undefined"]
    IN [request |-> [request EXCEPT !.headers.map = h1],
        options |->
            IF parsedURL.protocol = "null" \/ parsedURL.hostname = "null"
            THEN failed
            ELSE IF parsedURL.protocol \notin {"http:", "https:"}
            THEN failed
            ELSE [thrown |-> FALSE,
                  headers |-> exportNodeCompatibleHeaders(h5),
                  method |-> request.method,
                  agent |-> agent]]

\* getNodeRequestOptions(request): the options [thrown, headers, method,
\* agent] and the request as the call leaves it; the defaults are set on a
\* copy of the request's headers.
\* request.body is the Body object the constructor always makes, so
\* request.body == null is false and getTotalBytes is given that Body
\* (the same object is never a Stream.Readable, so the check of the signal
\* against streamed bodies never throws)
getNodeRequestOptions(request) ==
    LET parsedURL == parseUrl(request.url)
        h1 == SetIfAbsent(Headers_new(request.headers), Accept, AnyType)
        noBody == request.body = 0
        isPostOrPut == toUpperCase(request.method) \in {<<80,79,83,84>>, <<80,85,84>>}
        totalBytes == getTotalBytes(ABody)
        contentLengthValue ==
            IF ~noBody /\ totalBytes.known THEN NumberToString(totalBytes.n)
            ELSE IF noBody /\ isPostOrPut THEN <<48>>
            ELSE null
        h2 == IF contentLengthValue # null
              THEN Headers_set(h1, ContentLength, contentLengthValue).map
              ELSE h1
        h3 == SetIfAbsent(h2, UserAgent, NodeFetch)
        h4 == IF request.compress = "true"
              THEN SetIfAbsent(h3, AcceptEncoding, GzipDeflate) ELSE h3
        agent == IF request.agent = "function" THEN "Agent" ELSE request.agent
        h5 == IF ~Headers_has(h4, Connection).ret /\ agent = "undefined"
              THEN Headers_set(h4, Connection, Close).map ELSE h4
        failed == [thrown |-> TRUE, headers |-> <<>>, method |-> undefined,
                   agent |-> "undefined"]
    IN [request |-> request,
        options |->
            IF parsedURL.protocol = "null" \/ parsedURL.hostname = "null"
            THEN failed
            ELSE IF parsedURL.protocol \notin {"http:", "https:"}
            THEN failed
            ELSE [thrown |-> FALSE,
                  headers |-> exportNodeCompatibleHeaders(h5),
                  method |-> request.method,
                  agent |-> agent]]

-----------------------------------------------------------------------------
(* Messages, their clones and their bodies *)

\* "post"
RequestInits ==
    { NoInit,
      [NoInit EXCEPT !.method = <<112,111,115,116>>],
      [NoInit EXCEPT !.method = <<112,111,115,116>>,
                     !.body = [t |-> "string", data |-> <<49>>]],
      [NoInit EXCEPT !.method = <<112,111,115,116>>,
                     !.body = [t |-> "stream", data |-> <<>>]] }

ResponseBodies ==
    { NoBodyInit,
      [t |-> "string", data |-> <<49>>],
      [t |-> "stream", data |-> <<>>] }

\* the accessors called through messages
MsgAccessors == {"buffer", "text"}

\* the body is a stream that nothing has read
StreamBacked(bs, msg) ==
    IF msg.body = 0 THEN FALSE
    ELSE bs[msg.body].body.kind = "stream" /\ ~bs[msg.body].disturbed

\* the Headers object a constructor has just made gets its identity
Own(msg, id) ==
    IF msg.headers.obj = 0 THEN [msg EXCEPT !.headers.obj = id] ELSE msg

Clone(m, op, r) ==
    /\ Len(msgs) < MaxMsgs
    /\ ev' = [op |-> op, src |-> m, used |-> bodyUsed(bodies, msgs[m]),
              ok |-> ~r.thrown]
    /\ bodies' = r.bodies
    /\ msgs' = IF r.thrown THEN msgs
               ELSE Append(msgs, [Own(r.msg, Len(msgs) + 1) EXCEPT
                                     !.cloneOf = m,
                                     !.ofStream = StreamBacked(bodies, msgs[m])])
    /\ UNCHANGED <<stream, drain, calls, first>>
    /\ UNCHANGED <<hvars, avars>>

\* request.clone(), which is new Request(request)
RequestClone(m) ==
    /\ msgs[m].type = "Request"
    /\ Clone(m, "Request.clone", Request_clone(msgs[m], bodies))

\* response.clone()
ResponseClone(m) ==
    /\ msgs[m].type = "Response"
    /\ Clone(m, "Response.clone", Response_clone(msgs[m], bodies))

\* an accessor of a Request or Response: this.body?.accessor()
MsgCall(m, accessor) ==
    IF msgs[m].body # 0 THEN Consume(msgs[m].body, m, accessor)
    ELSE /\ Len(calls) < MaxCalls
         /\ msgs[m].type = "Response"
         /\ calls' = Append(calls, Reject(NewCall(0, m, accessor, "none"),
                                          "no body"))
         /\ ev' = NoEv
         /\ UNCHANGED <<bodies, stream, drain, msgs, first>>
         /\ UNCHANGED <<hvars, avars>>

InitClone ==
    /\ map = <<>>
    /\ hist = [n \in LowerNames |-> "never"]
    /\ hev = Call("new", undefined, undefined, FALSE, undefined)
    /\ \/ \E init \in RequestInits :
             LET r == Request_new(NotARequest, "https://example.com/x", init, <<>>)
             IN /\ ~r.thrown
                /\ bodies = r.bodies
                /\ msgs = <<Own(r.msg, 1)>>
                /\ stream = IF init.body.t = "stream" THEN NewStream ELSE NoStream
       \/ \E b \in ResponseBodies :
             LET r == Response_new(b, NoOpts, <<>>)
             IN /\ bodies = r.bodies
                /\ msgs = <<Own(r.msg, 1)>>
                /\ stream = IF b.t = "stream" THEN NewStream ELSE NoStream
    /\ drain = NoDrain
    /\ calls = <<>>
    /\ first = "none"
    /\ ev = NoEv
    /\ db = NoDb
    /\ reqs = <<>>

NextClone ==
    \/ \E m \in 1..Len(msgs) : RequestClone(m)
    \/ \E m \in 1..Len(msgs) : ResponseClone(m)
    \/ \E m \in 1..Len(msgs), a \in MsgAccessors : MsgCall(m, a)
    \/ \E c \in Chunks : StreamData(c)
    \/ StreamEnd

SpecClone == InitClone /\ [][NextClone]_vars

-----------------------------------------------------------------------------
(* Messages made with options, made from other messages, and their headers *)

\* the init {headers: {name: value}}
HeadersInit(name, value) ==
    [given |-> TRUE, map |-> <<[key |-> name, vals |-> <<value>>]>>, obj |-> 0]

\* "post", "get", "head", "content-type", "accept", "Connection",
\* "accept-encoding", "x"
Post == <<112,111,115,116>>

RequestArgs ==
    LET url == "https://example.com/x"
        str == [t |-> "string", data |-> <<49>>]
        buf == [t |-> "buffer", data |-> <<49>>]
    IN { <<url, NoInit>>,
         <<"/x", NoInit>>,
         <<"ftp://example.com/x", NoInit>>,
         <<"http://example.com/x", NoInit>>,
         <<url, [NoInit EXCEPT !.method = Post]>>,
         <<url, [NoInit EXCEPT !.method = Post, !.body = str]>>,
         <<url, [NoInit EXCEPT !.method = Post, !.body = buf]>>,
         <<url, [NoInit EXCEPT !.method = Post,
                               !.body = [t |-> "stream", data |-> <<>>]]>>,
         <<url, [NoInit EXCEPT !.method = <<103,101,116>>, !.body = str]>>,
         <<url, [NoInit EXCEPT !.method = <<104,101,97,100>>, !.body = buf]>>,
         <<url, [NoInit EXCEPT !.body = str]>>,
         <<url, [NoInit EXCEPT !.method = Post, !.body = str,
                    !.headers = HeadersInit(
                        <<99,111,110,116,101,110,116,45,116,121,112,101>>,
                        <<120>>)]>>,
         <<url, [NoInit EXCEPT !.method = Post, !.body = str,
                               !.signal = "object"]>>,
         <<url, [NoInit EXCEPT !.method = Post, !.body = str,
                               !.signal = "AbortSignal"]>>,
         <<url, [NoInit EXCEPT !.headers =
                    HeadersInit(<<97,99,99,101,112,116>>, <<120>>)]>>,
         <<url, [NoInit EXCEPT !.headers =
                    HeadersInit(Connection, <<120>>)]>>,
         <<url, [NoInit EXCEPT !.headers =
                    HeadersInit(<<97,99,99,101,112,116,45,101,110,99,111,
                                  100,105,110,103>>, <<120>>)]>>,
         <<url, [NoInit EXCEPT !.compress = "false"]>>,
         <<url, [NoInit EXCEPT !.agent = "Agent"]>> }

\* the options given with a source request
Overrides ==
    { [NoInit EXCEPT !.method = <<103,101,116>>],
      [NoInit EXCEPT !.method = Post],
      [NoInit EXCEPT !.body = [t |-> "string", data |-> <<49>>]],
      [NoInit EXCEPT !.signal = "null"],
      [NoInit EXCEPT !.signal = "object"] }

ResponseArgs ==
    { <<NoBodyInit, NoOpts>>,
      <<[t |-> "string", data |-> <<49>>], NoOpts>>,
      <<[t |-> "buffer", data |-> <<49>>], NoOpts>>,
      <<[t |-> "stream", data |-> <<>>], NoOpts>>,
      <<NoBodyInit, [NoOpts EXCEPT !.counter = 0]>>,
      <<[t |-> "buffer", data |-> <<49>>],
        [NoOpts EXCEPT !.status = 301, !.statusText = <<120>>,
                       !.counter = 1, !.url = "https://example.com/x",
                       !.headers = HeadersInit(<<97>>, <<120>>)]>> }

\* what the last constructor or projection call was given and returned
Made(op, m, thrown, href, init, opts) ==
    [op |-> op, src |-> m,
     used |-> IF m = 0 THEN FALSE ELSE bodyUsed(bodies, msgs[m]),
     ok |-> ~thrown, href |-> href, init |-> init, opts |-> opts]

NoOptions ==
    [thrown |-> TRUE, headers |-> <<>>, method |-> undefined,
     agent |-> "undefined"]

Construct(op, m, href, init, made) ==
    /\ Len(msgs) < MaxMsgs
    /\ \E r \in {made} :
          /\ ev' = Made(op, m, r.thrown, href, init, NoOptions)
          /\ bodies' = r.bodies
          /\ msgs' = IF r.thrown THEN msgs
                     ELSE Append(msgs, [Own(r.msg, Len(msgs) + 1)
                                           EXCEPT !.cloneOf = m])
    /\ UNCHANGED <<stream, drain, calls, first>>
    /\ UNCHANGED <<hvars, avars>>

\* new Request(href, init): the first message
RequestNew(href, init) ==
    /\ msgs = <<>>
    /\ Construct("new Request", 0, href, init,
                 Request_new(NotARequest, href, init, bodies))

\* new Request(request, init), and request.clone() when init is {}
RequestFrom(m, init) ==
    /\ msgs[m].type = "Request"
    /\ Construct("new Request", m, msgs[m].url, init,
                 Request_new(msgs[m], msgs[m].url, init, bodies))

\* new Response(body, opts): the first message
ResponseNew(b, opts) ==
    /\ msgs = <<>>
    /\ Construct("new Response", 0, opts.url,
                 [NoInit EXCEPT !.body = b, !.headers = opts.headers],
                 [thrown |-> FALSE] @@ Response_new(b, opts, bodies))

\* new Response(body, {headers: message.headers})
ResponseFrom(m, b) ==
    Construct("new Response", m, "",
              [NoInit EXCEPT !.body = b, !.headers = msgs[m].headers],
              [thrown |-> FALSE] @@
              Response_new(b, [NoOpts EXCEPT !.headers = msgs[m].headers],
                           bodies))

\* response.clone()
ResponseCopy(m) ==
    /\ msgs[m].type = "Response"
    /\ Construct("Response.clone", m, msgs[m].url, NoInit,
                 Response_clone(msgs[m], bodies))

\* getNodeRequestOptions(request)
Project(m) ==
    /\ msgs[m].type = "Request"
    /\ \E r \in {getNodeRequestOptions(msgs[m])} :
          /\ ev' = Made("getNodeRequestOptions", m, r.options.thrown,
                        msgs[m].url, NoInit, r.options)
          /\ msgs' = [msgs EXCEPT ![m] = r.request]
    /\ UNCHANGED <<bodies, stream, drain, calls, first>>
    /\ UNCHANGED <<hvars, avars>>

\* response.redirected
Redirected(m) ==
    /\ msgs[m].type = "Response"
    /\ ev' = Made("Response.redirected", m, FALSE, msgs[m].url, NoInit,
                  redirected(msgs[m]))
    /\ UNCHANGED <<bodies, stream, drain, calls, msgs, first>>
    /\ UNCHANGED <<hvars, avars>>

\* message.text() on a body that is no stream
MsgRead(m) ==
    /\ IF msgs[m].body = 0 THEN TRUE
       ELSE bodies[msgs[m].body].body.kind # "stream"
    /\ MsgCall(m, "text")

\* message.headers.set(name, value), append(name, value) or delete(name):
\* every message that holds the same Headers object sees the new content
MsgHeaders(m, op, name, value) ==
    LET r == CASE op = "set" -> Headers_set(msgs[m].headers.map, name, value)
               [] op = "append" ->
                      Headers_append(msgs[m].headers.map, name, value)
               [] op = "delete" -> Headers_delete(msgs[m].headers.map, name)
    IN /\ op = "append" => CanAppend(msgs[m].headers.map, name)
       /\ msgs' = [k \in 1..Len(msgs) |->
                      IF msgs[k].headers.obj = msgs[m].headers.obj
                      THEN [msgs[k] EXCEPT !.headers.map = r.map]
                      ELSE msgs[k]]
       /\ ev' = Made("headers." \o op, m, r.thrown, "", NoInit, NoOptions)
       /\ UNCHANGED <<bodies, stream, drain, calls, first>>
       /\ UNCHANGED <<hvars, avars>>

InitMessage ==
    /\ map = <<>>
    /\ hist = [n \in LowerNames |-> "never"]
    /\ hev = Call("new", undefined, undefined, FALSE, undefined)
    /\ bodies = <<>>
    /\ stream = NoStream
    /\ drain = NoDrain
    /\ calls = <<>>
    /\ msgs = <<>>
    /\ first = "none"
    /\ ev = NoEv
    /\ db = NoDb
    /\ reqs = <<>>

NextMessage ==
    \/ \E a \in RequestArgs : RequestNew(a[1], a[2])
    \/ \E m \in 1..Len(msgs), init \in Overrides \cup {NoInit} :
           RequestFrom(m, init)
    \/ \E a \in ResponseArgs : ResponseNew(a[1], a[2])
    \/ \E m \in 1..Len(msgs) :
           ResponseFrom(m, [t |-> "buffer", data |-> <<49>>])
    \/ \E m \in 1..Len(msgs) : ResponseCopy(m)
    \/ \E m \in 1..Len(msgs) : Project(m)
    \/ \E m \in 1..Len(msgs) : MsgRead(m)
    \/ \E m \in 1..Len(msgs) : Redirected(m)

SpecMessage == InitMessage /\ [][NextMessage]_vars

\* one message, the messages made from it, and calls on their headers
NextOwn ==
    \/ \E m \in 1..Len(msgs) : RequestFrom(m, NoInit)
    \/ \E m \in 1..Len(msgs) :
           ResponseFrom(m, [t |-> "buffer", data |-> <<49>>])
    \/ \E m \in 1..Len(msgs) : ResponseCopy(m)
    \/ \E m \in 1..Len(msgs), op \in {"set", "append", "delete"} :
           MsgHeaders(m, op, <<65>>, <<120>>)

SpecOwn == InitClone /\ [][NextOwn]_vars

-----------------------------------------------------------------------------
(* tracker_app.ts and models/user.ts: create_user *)

\* "u", "v" and "w"
Usernames == { <<117>>, <<118>>, <<119>> }

NoUser == [_id |-> 0, username |-> <<>>]

\* User.findOne({username}).exec(): the first stored user of that name, or
\* null (NoUser)
findOne(users, username) ==
    LET hits == {i \in 1..Len(users) : users[i].username = username}
    IN IF hits = {} THEN NoUser
       ELSE users[CHOOSE i \in hits : \A j \in hits : i <= j]

\* user.save(): the insert is refused with a duplicate key error when the
\* unique index of the schema exists and holds the username: [thrown, db]
save(d, user) ==
    IF d.unique /\ findOne(d.users, user.username) # NoUser
    THEN [thrown |-> TRUE, db |-> d]
    ELSE [thrown |-> FALSE, db |-> [d EXCEPT !.users = Append(@, user)]]

\* POST /api/users arrives: create_user makes new User({username}), which
\* gets a new _id, and awaits User.findOne
Arrive(username) ==
    /\ Len(reqs) < MaxReqs
    /\ reqs' = Append(reqs, [pc |-> "findOne",
                             user |-> [_id |-> Len(reqs) + 1,
                                       username |-> username],
                             res |-> NoUser])
    /\ UNCHANGED <<db, bodies, stream, drain, calls, msgs, first, ev>>
    /\ UNCHANGED hvars

\* the query of request r is answered: the handler answers with the user
\* found, or awaits user.save()
FindOne(r) ==
    LET user_exists == findOne(db.users, reqs[r].user.username)
    IN /\ reqs[r].pc = "findOne"
       /\ reqs' = [reqs EXCEPT ![r] =
                      IF user_exists # NoUser
                      THEN [pc |-> "done", user |-> user_exists,
                            res |-> user_exists]
                      ELSE [@ EXCEPT !.pc = "save"]]
       /\ UNCHANGED <<db, bodies, stream, drain, calls, msgs, first, ev>>
       /\ UNCHANGED hvars

\* the insert of request r is executed: the handler answers with its user,
\* or the rejection of save() leaves the handler without calling res.json
Save(r) ==
    LET s == save(db, reqs[r].user)
    IN /\ reqs[r].pc = "save"
       /\ db' = s.db
       /\ reqs' = [reqs EXCEPT ![r] =
                      IF s.thrown THEN [@ EXCEPT !.pc = "rejected"]
                      ELSE [@ EXCEPT !.pc = "done", !.res = reqs[r].user]]
       /\ UNCHANGED <<bodies, stream, drain, calls, msgs, first, ev>>
       /\ UNCHANGED hvars

\* the unique index the schema asks for is built once the connection is
\* up; the build fails when the collection holds a username twice
EnsureIndex ==
    /\ ~db.unique
    /\ \A i, j \in 1..Len(db.users) :
           db.users[i].username = db.users[j].username => i = j
    /\ db' = [db EXCEPT !.unique = TRUE]
    /\ UNCHANGED <<reqs, bodies, stream, drain, calls, msgs, first, ev>>
    /\ UNCHANGED hvars

InitUsers ==
    /\ map = <<>>
    /\ hist = [n \in LowerNames |-> "never"]
    /\ hev = Call("new", undefined, undefined, FALSE, undefined)
    /\ bodies = <<>>
    /\ stream = NoStream
    /\ drain = NoDrain
    /\ calls = <<>>
    /\ msgs = <<>>
    /\ first = "none"
    /\ ev = NoEv
    /\ db = NoDb
    /\ reqs = <<>>

NextUsers ==
    \/ \E u \in Usernames : Arrive(u)
    \/ \E r \in 1..Len(reqs) : FindOne(r)
    \/ \E r \in 1..Len(reqs) : Save(r)
    \/ EnsureIndex

SpecUsers == InitUsers /\ [][NextUsers]_vars

-----------------------------------------------------------------------------
(* Properties of Headers (SpecHeaders) *)

\* "a", "A", "Content-Encoding", "content-encoding", "CONTENT-ENCODING"
Casings ==
    Names \cup
    { <<99,111,110,116,101,110,116,45,101,110,99,111,100,105,110,103>>,
      <<67,79,78,84,69,78,84,45,69,78,67,79,68,73,78,71>> }

LegalCasings == {n \in Casings : ~validateName(n)}

\* the entries of m stored for a lower-cased name, whatever their casing
Stored(m, lname) == SelectSeq(m, LAMBDA e : toLowerCase(e.key) = lname)

\* the entries of m stored for every other name
Others(m, lname) == SelectSeq(m, LAMBDA e : toLowerCase(e.key) # lname)

\* C8: after any sequence of set/append/delete, has(n) is true for every
\* casing n of a name whose last mutating operation was a set or an append,
\* false when it was a delete or the name was never added, and get on a
\* never-set name returns null.
C8_HasFollowsLastMutation ==
    \A n \in LegalCasings :
        /\ ~Headers_has(map, n).thrown
        /\ Headers_has(map, n).ret = (hist[toLowerCase(n)] = "live")
        /\ hist[toLowerCase(n)] = "never" => Headers_get(map, n).ret = null

\* C8 witness: has answered true for a casing other than the stored one,
\* and another name has been deleted
C8_Witness ==
    /\ hev.op = "has" /\ hev.ret = <<1>>
    /\ \E i \in 1..Len(map) :
           /\ map[i].key # hev.name
           /\ toLowerCase(map[i].key) = toLowerCase(hev.name)
    /\ \E l \in LowerNames : hist[l] = "deleted"

\* C9 as written: append on an existing name (any casing) keeps the stored
\* values in order, places v last, and get(name) then returns exactly all of
\* them joined with ", ".
C9_AppendThenGetJoins ==
    [][ (hev'.op = "append" /\ ~hev'.thrown
            /\ Stored(map, toLowerCase(hev'.name)) # <<>>)
        => LET l   == toLowerCase(hev'.name)
               old == Stored(map, l)[1].vals
           IN /\ Len(Stored(map', l)) = 1
              /\ Stored(map', l)[1].vals = Append(old, hev'.value)
              /\ Headers_get(map', hev'.name).ret = join(Append(old, hev'.value))
      ]_vars

\* C9 amended: append on an existing name (any casing) keeps the stored
\* values in order and places v last; get(name) then returns all of them
\* joined with ", " in that order, lower-cased when the name is
\* content-encoding under any casing.
C9_AppendThenGetJoinsLowerCE ==
    [][ (hev'.op = "append" /\ ~hev'.thrown
            /\ Stored(map, toLowerCase(hev'.name)) # <<>>)
        => LET l   == toLowerCase(hev'.name)
               old == Stored(map, l)[1].vals
               all == join(Append(old, hev'.value))
           IN /\ Len(Stored(map', l)) = 1
              /\ Stored(map', l)[1].vals = Append(old, hev'.value)
              /\ Stored(map', l)[1].key = Stored(map, l)[1].key
              /\ Headers_get(map', hev'.name).ret =
                     IF l = <<99,111,110,116,101,110,116,45,
                              101,110,99,111,100,105,110,103>>
                     THEN toLowerCase(all) ELSE all
      ]_vars

\* C9 witness: an append under another casing than the stored one has made
\* a list of two different values
C9_Witness ==
    /\ hev.op = "append" /\ ~hev.thrown
    /\ \E i \in 1..Len(map) :
           /\ map[i].key # hev.name
           /\ toLowerCase(map[i].key) = toLowerCase(hev.name)
           /\ Len(map[i].vals) = 2
           /\ map[i].vals[1] # map[i].vals[2]
           /\ map[i].vals[2] = hev.value

\* C10: set(name, v) replaces every value stored for name under any casing
\* by the single value v, keeps the stored casing of the name if it existed
\* (else stores the casing of the call), and leaves every other header name
\* and its values unchanged.
C10_SetReplacesOneName ==
    [][ (hev'.op = "set" /\ ~hev'.thrown)
        => LET l == toLowerCase(hev'.name)
           IN /\ Len(Stored(map', l)) = 1
              /\ Stored(map', l)[1].vals = <<hev'.value>>
              /\ Stored(map', l)[1].key =
                     IF Stored(map, l) # <<>> THEN Stored(map, l)[1].key
                     ELSE hev'.name
              /\ Others(map', l) = Others(map, l)
      ]_vars

\* C10 witness: a set under another casing than the stored one replaced a
\* list of two values while another header name was present
C10_Witness ==
    /\ hev.op = "set" /\ ~hev.thrown
    /\ Len(map) = 2
    /\ \E i \in 1..Len(map) :
           /\ map[i].key # hev.name
           /\ toLowerCase(map[i].key) = toLowerCase(hev.name)
           /\ map[i].vals = <<hev.value>>

\* the stored names in ascending order of their lower-cased forms
ByLowerName(m) ==
    LET at(i) == CHOOSE k \in 1..Len(m) :
                     Cardinality({j \in 1..Len(m) :
                         StrLess(toLowerCase(m[j].key),
                                 toLowerCase(m[k].key))}) = i - 1
    IN [i \in 1..Len(m) |-> m[at(i)].key]

\* C11: keys(), values() and entries() produce their items ordered
\* ascending by the lower-cased header name, whatever the content.
C11_IterationByLowerName ==
    LET ks == ByLowerName(map)
    IN /\ hev.op = "keys" =>
              \A i \in 1..Len(map) : toLowerCase(hev.ret[i]) = toLowerCase(ks[i])
       /\ hev.op = "values" =>
              \A i \in 1..Len(map) : hev.ret[i] = join(Prop(map, ks[i]))
       /\ hev.op = "entries" =>
              \A i \in 1..Len(map) :
                  toLowerCase(hev.ret[i][1]) = toLowerCase(ks[i])

\* C12: a call of set, append, get, has or delete with a name that violates
\* the token grammar (the empty name included), or of set or append with a
\* value that violates the value grammar, raises an error and leaves the
\* content exactly as it was.
C12_InvalidCallThrowsNoChange ==
    [][ (/\ hev'.op \in {"set", "append", "get", "has", "delete"}
         /\ \/ invalidTokenRegex(hev'.name) \/ hev'.name = <<>>
            \/ /\ hev'.op \in {"set", "append"}
               /\ invalidHeaderCharRegex(hev'.value))
        => hev'.thrown /\ map' = map
      ]_vars

\* C12 witness: an append with a legal name and an illegal value has thrown
\* on a content that holds that name
C12_Witness ==
    /\ hev.op = "append" /\ hev.thrown
    /\ ~validateName(hev.name)
    /\ Stored(map, toLowerCase(hev.name)) # <<>>

\* C12 witness: a delete with the empty name has thrown on a content that is
\* not empty
C12_WitnessEmptyName ==
    hev.op = "delete" /\ hev.thrown /\ hev.name = <<>> /\ map # <<>>

\* C25: in a Headers object built by the constructor and changed only
\* through set, append and delete, no two stored keys are equal when
\* lower-cased: every header name has a single value list however the
\* casings of the calls vary.
C25_OneKeyPerName ==
    \A i, j \in 1..Len(map) :
        toLowerCase(map[i].key) = toLowerCase(map[j].key) => i = j

\* C25 witness: a name stored under one casing has taken a second value
\* through a call under another casing, next to another header name
C25_Witness ==
    /\ Len(map) = 2
    /\ \E i \in 1..Len(map) :
           /\ Len(map[i].vals) = 2
           /\ hev.op \in {"set", "append"} /\ ~hev.thrown
           /\ hev.name # map[i].key
           /\ toLowerCase(hev.name) = toLowerCase(map[i].key)

-----------------------------------------------------------------------------
(* Properties of one Body (SpecBody) *)

\* the call that reads the stream, and the size cap and timeout it read
Reader == calls[drain.call]

\* an earlier call was made on the same body
Later(i) == \E j \in 1..(i - 1) : calls[j].on = calls[i].on

UseOnce ==
    \A i \in 1..Len(calls) :
        /\ bodies[calls[i].on].disturbed
        /\ IF Later(i)
           THEN calls[i].state = "rejected" /\ calls[i].error = "used"
           ELSE calls[i].error # "used"

\* C1: on one Body, for every pair of accessors and also when the second is
\* called before the first has settled, only the first call can succeed,
\* every later call fails with "body used already", and bodyUsed is true
\* from the start of the first call and never returns to false.
C1_OnlyFirstCallSucceeds ==
    [][ /\ UseOnce'
        /\ \A b \in 1..Len(bodies) : bodies[b].disturbed => bodies'[b].disturbed
      ]_vars

\* C1 witness: a second, different accessor was refused while the first
\* call was still reading the stream
C1_Witness ==
    /\ Len(calls) = 2
    /\ calls[1].state = "pending" /\ stream.chunks > 0
    /\ calls[2].error = "used"
    /\ calls[1].accessor # calls[2].accessor

\* C4 as written: with cap N > 0 the drain fails with max-size exactly when
\* the chunks that arrive before the end of the stream total more than N;
\* N = 0 means no cap; a failed drain returns no data.
C4_MaxSizeIffOverCap ==
    drain.promise # "none" =>
        LET N == bodies[Reader.on].size
        IN /\ N = 0 => drain.promise # "max-size"
           /\ (N > 0 /\ stream.ended) =>
                  ((Reader.error = "max-size") <=> (stream.arrived > N))
           /\ Reader.state = "rejected" => Reader.value = NoValue

\* C4 amended: with cap N > 0 the drain fails with max-size exactly when a
\* chunk takes the total that has arrived above N before the stream has
\* ended and before a timeout or a stream error has settled the drain (a
\* total of exactly N succeeds); N = 0 means no cap; a failed drain returns
\* no data.
C4_MaxSizeIffOverCapFirst ==
    drain.promise # "none" =>
        LET N == bodies[Reader.on].size
        IN /\ N = 0 => drain.promise # "max-size"
           /\ (drain.promise = "max-size") <=> (first = "over-cap")
           /\ (Reader.error = "max-size") <=> (first = "over-cap")
           /\ first = "over-cap" => N > 0 /\ stream.arrived > N
           /\ (N > 0 /\ stream.arrived > N) => first \in {"over-cap", "timer", "error"}
           /\ (stream.ended /\ stream.arrived <= N /\ first = "end")
                  => drain.promise = "resolved"
           /\ Reader.state = "rejected" => Reader.value = NoValue

\* C4 witness: the cap was exceeded and the call failed with max-size
C4_Witness ==
    /\ drain.promise = "max-size"
    /\ Reader.state = "rejected" /\ Reader.error = "max-size"
    /\ stream.arrived > bodies[Reader.on].size
    /\ drain.accumBytes > 0

\* the outcome that goes with the first deciding event
OutcomeOf(f) ==
    CASE f = "none" -> "pending"
      [] f = "end" -> "resolved"
      [] f = "over-cap" -> "max-size"
      [] f = "timer" -> "body-timeout"
      [] f = "error" ->
            IF stream.lastErr = "AbortError" THEN "AbortError" ELSE "system"

\* C5: a started drain settles with at most one outcome, the one whose
\* event (end, over-cap chunk, timer expiry, error) occurs first, and no
\* later stream or timer event changes the result or the bytes returned.
C5_FirstOutcomeWins ==
    [][ /\ drain'.promise # "none" =>
              /\ drain'.promise = OutcomeOf(first)'
              /\ (Reader'.state = "pending") <=> (drain'.promise = "pending")
              /\ Reader'.state = "fulfilled" => drain'.promise = "resolved"
              /\ (Reader'.state = "rejected" /\ Reader'.error # "SyntaxError")
                     => Reader'.error = drain'.promise
        /\ \A i \in 1..Len(calls) :
              calls[i].state # "pending" => calls'[i] = calls[i]
      ]_vars

\* C5 witness: the timer decided the drain, and data and end arrived after
C5_Witness ==
    /\ drain.promise = "body-timeout"
    /\ first = "timer"
    /\ stream.ended /\ stream.arrived > 0 /\ drain.accumBytes = 0
    /\ stream.lastErr # "none"

\* C6: an error the stream emitted before any consumption fails the first
\* consumption with that error (type system unless it is an AbortError) and
\* marks the body disturbed; after a failed consumption a second attempt
\* fails with "body used already", not with the original error.
C6_RecordedErrorThenUsed ==
    \A i \in 1..Len(calls) :
        /\ (~Later(i) /\ calls[i].pre # "none") =>
              /\ calls[i].state = "rejected"
              /\ calls[i].error =
                    IF calls[i].pre = "AbortError" THEN "AbortError" ELSE "system"
              /\ bodies[calls[i].on].disturbed
        /\ \A j \in 1..(i - 1) :
              (calls[j].on = calls[i].on /\ calls[j].state = "rejected")
                  => calls[i].error = "used"

\* C6 witness: the stream failed before the first call, which got the
\* wrapped error; the second call got "body used already"
C6_Witness ==
    /\ Len(calls) = 2
    /\ calls[1].pre = "Error" /\ calls[1].error = "system"
    /\ calls[2].error = "used"

\* C7: with timeout T > 0 the drain fails with body-timeout only if the
\* timer armed at drain begin expires before the stream has ended, never
\* before T has elapsed; with T = 0 there is no timer and no timeout
\* failure; normal completion clears the timer, which cannot fire later.
C7_TimeoutOnlyAfterT ==
    [][ /\ drain'.promise # "none" =>
              LET T == bodies'[Reader'.on].timeout
              IN /\ T = 0 => drain'.resTimeout = "unset"
                             /\ drain'.promise # "body-timeout"
                 /\ drain'.promise = "body-timeout" =>
                        /\ T > 0
                        /\ drain'.resTimeout = "fired"
                        /\ drain'.elapsed >= T
                        /\ first' = "timer"
                 /\ drain'.resTimeout = "fired" => drain'.elapsed >= T
                 /\ drain'.promise = "resolved" =>
                        drain'.resTimeout \in {"unset", "cleared"}
        /\ drain.resTimeout = "cleared" => drain'.resTimeout = "cleared"
      ]_vars

\* C7 witness: the timer expired after T and failed the drain
C7_Witness ==
    /\ drain.promise = "body-timeout"
    /\ Reader.error = "body-timeout"
    /\ drain.elapsed >= 1
    /\ ~stream.ended

\* C7 second case reached: the stream ended in time and the timer was
\* cleared
C7_Cleared ==
    /\ drain.promise = "resolved"
    /\ drain.resTimeout = "cleared"

\* the bytes of the chunks of a list that are not null, in the order of
\* the list
RECURSIVE BytesOf(_)
BytesOf(chunks) ==
    IF chunks = <<>> THEN <<>>
    ELSE IF chunks[Len(chunks)] = null
    THEN BytesOf(SubSeq(chunks, 1, Len(chunks) - 1))
    ELSE BytesOf(SubSeq(chunks, 1, Len(chunks) - 1)) \o chunks[Len(chunks)]

\* C23: when a drain of a stream body succeeds, the returned byte sequence
\* is exactly the concatenation, in arrival order, of all non-null chunks
\* delivered between drain start and stream end, and its length is the sum
\* of their lengths.
C23_BytesInArrivalOrder ==
    (/\ drain.promise = "resolved"
     /\ Reader.state = "fulfilled"
     /\ Reader.accessor \in {"buffer", "arrayBuffer", "blob"})
    => /\ stream.ended
       /\ Reader.value.data = BytesOf(stream.emitted)
       /\ Len(Reader.value.data) = stream.arrived

\* C23 witness: a drain has returned the bytes of two different chunks
C23_Witness ==
    /\ drain.promise = "resolved" /\ Reader.state = "fulfilled"
    /\ Reader.accessor = "buffer"
    /\ stream.emitted = << <<123, 49>>, <<49>> >>
    /\ Reader.value.data = <<123, 49, 49>>

\* C23 witness: a drain has left out a null chunk
C23_WitnessNull ==
    /\ drain.promise = "resolved" /\ Reader.state = "fulfilled"
    /\ Reader.accessor = "arrayBuffer"
    /\ stream.emitted = << null, <<123, 49>> >>
    /\ Reader.value.data = <<123, 49>>

\* C27: a drain of a stream body with a timeout T > 0 eventually settles
\* whatever the stream does, also when the stream never emits end after an
\* over-cap chunk or an error; with T = 0 the drain is settled whenever the
\* stream has ended or emitted an error.
C27_DrainSettles ==
    /\ (drain.promise = "pending" /\ drain.delay > 0)
          ~> (drain.promise \in {"resolved", "max-size", "body-timeout",
                                 "system", "AbortError"})
    /\ [](drain.delay = 0 /\ (stream.ended \/ stream.lastErr # "none")
            => drain.promise # "pending")

\* a drain with a timeout that the timer settled: the stream emitted a
\* chunk and then nothing
C27_Witness ==
    /\ drain.delay > 0
    /\ drain.promise = "body-timeout"
    /\ stream.chunks > 0
    /\ ~stream.ended
    /\ stream.lastErr = "none"

\* a drain without a timeout that the end of the stream settled
C27_WitnessNoTimer ==
    /\ drain.call # 0
    /\ drain.delay = 0
    /\ drain.resTimeout = "unset"
    /\ stream.ended
    /\ drain.promise = "resolved"

\* a drain with a timeout whose stream went over the cap and never ended
C27_WitnessOverCap ==
    /\ drain.delay > 0
    /\ drain.promise = "max-size"
    /\ drain.resTimeout = "fired"
    /\ ~stream.ended

-----------------------------------------------------------------------------
(* Properties of clones (SpecClone) *)

\* an accessor has been called through msgs[m]
Called(m) == \E i \in 1..Len(calls) : calls[i].via = m

\* C2: a clone of a message whose stream body is unconsumed has a body
\* independent of the original's: draining one does not mark the other as
\* used, and both drain to the bytes the stream produces.
C2_ClonesIndependent ==
    \A c \in 1..Len(msgs) :
        (msgs[c].cloneOf # 0 /\ msgs[c].ofStream) =>
            LET m == msgs[c].cloneOf
            IN /\ ~Called(c) => ~bodyUsed(bodies, msgs[c])
               /\ ~Called(m) => ~bodyUsed(bodies, msgs[m])
               /\ \A i, j \in 1..Len(calls) :
                     (/\ calls[i].via = c /\ calls[j].via = m
                      /\ calls[i].accessor = calls[j].accessor
                      /\ calls[i].state # "pending"
                      /\ calls[j].state # "pending")
                         => /\ calls[i].state = calls[j].state
                            /\ calls[i].value = calls[j].value

\* C3: cloning a Request or a Response whose body is already disturbed
\* fails, returns no clone and changes nothing of the original.
C3_CloneOfUsedBodyFails ==
    [][ (ev'.op # "none" /\ ev'.used) =>
            /\ ~ev'.ok
            /\ UNCHANGED <<msgs, bodies, stream, drain, calls>>
      ]_vars

\* C3 witness: clone() of a POST request whose body has been read failed
C3_Witness ==
    /\ ev.op = "Request.clone" /\ ev.used /\ ~ev.ok
    /\ msgs[ev.src].method = <<80,79,83,84>>
    /\ Called(ev.src)

\* C3 second case reached: clone() of a response whose body has been read
\* failed
C3_WitnessResponse ==
    /\ ev.op = "Response.clone" /\ ev.used /\ ~ev.ok
    /\ Called(ev.src)

-----------------------------------------------------------------------------
(* Properties of construction (SpecMessage) and of header storage (SpecOwn) *)

\* the values a header content holds for a name under any casing, <<>> when
\* the name is absent
ValuesOf(m, name) ==
    IF Stored(m, toLowerCase(name)) = <<>> THEN <<>>
    ELSE Stored(m, toLowerCase(name))[1].vals

\* the method a construction resolves to: the override's, else the source
\* request's, else GET, upper-cased
Resolved(e) ==
    LET given == IF e.init.method # undefined THEN e.init.method
                 ELSE IF e.src # 0 THEN msgs[e.src].method ELSE GET
    IN [i \in 1..Len(given) |->
           IF given[i] >= 97 /\ given[i] <= 122 THEN given[i] - 32
           ELSE given[i]]

\* the construction is given a body that is not null, by the override or by
\* the source request
BodyGiven(e) ==
    \/ e.init.body.t \notin {"undefined", "null"}
    \/ /\ e.src # 0
       /\ bodies[msgs[e.src].body].body.kind # "null"

\* the newest message
Newest(ms) == ms[Len(ms)]

\* C13: constructing a Request whose resolved method is GET or HEAD together
\* with a non-null body (from override or source request) fails and yields
\* no object; the same construction with method POST succeeds (the body it
\* takes from a source request being unconsumed and the cancellation handle
\* being one).
C13_GetWithBodyFails ==
    [][ (ev'.op = "new Request" /\ BodyGiven(ev')) =>
          /\ Resolved(ev') \in {GET, HEAD} => (~ev'.ok /\ msgs' = msgs)
          /\ (/\ Resolved(ev') = <<80,79,83,84>>
              /\ ev'.init.signal \in {"undefined", "null", "AbortSignal"}
              /\ (ev'.init.body.t \in {"undefined", "null"} => ~ev'.used))
             => /\ ev'.ok
                /\ Len(msgs') = Len(msgs) + 1
                /\ Newest(msgs').type = "Request"
                /\ Newest(msgs').method = <<80,79,83,84>>
      ]_vars

\* C13 witness: a source request made with POST and a body, given the
\* override method 'get', has failed
C13_Witness ==
    /\ ev.op = "new Request" /\ ~ev.ok /\ ev.src # 0
    /\ ev.init.method = <<103,101,116>>
    /\ msgs[ev.src].method = <<80,79,83,84>>
    /\ bodies[msgs[ev.src].body].body.kind = "buffer"

\* C13 witness: the construction from the same kind of source with the
\* override method 'post' has made a Request
C13_WitnessPost ==
    /\ ev.op = "new Request" /\ ev.ok /\ ev.src # 0
    /\ ev.init.method = Post
    /\ bodies[msgs[ev.src].body].body.kind = "buffer"
    /\ Newest(msgs).method = <<80,79,83,84>>

\* C14: for every Request whose body is unconsumed, whatever its method,
\* clone() and new Request(request) succeed and return a new Request with
\* the same method, URL, header content, redirect policy, follow count,
\* compress flag and cancellation handle as the source.
C14_RequestCloneCopies ==
    [][ (/\ ev'.op = "new Request" /\ ev'.src # 0 /\ ev'.init = NoInit
         /\ ~ev'.used)
        => /\ ev'.ok
           /\ Len(msgs') = Len(msgs) + 1
           /\ LET src == msgs[ev'.src]
                  new == Newest(msgs')
              IN /\ new.type = "Request"
                 /\ new.method = src.method
                 /\ new.url = src.url
                 /\ new.headers.map = src.headers.map
                 /\ new.redirect = src.redirect
                 /\ new.follow = src.follow
                 /\ new.compress = src.compress
                 /\ new.signal = src.signal
      ]_vars

\* the request is what new Request(url) makes from an absolute https URL
\* and no options
PlainHttps(req) ==
    /\ req.type = "Request" /\ req.cloneOf = 0
    /\ req.url = "https://example.com/x"
    /\ req.method = GET /\ req.headers.map = <<>>
    /\ req.compress = "true" /\ req.agent = "undefined"

\* C15: for a Request built from an absolute https URL with no options,
\* getNodeRequestOptions returns headers containing Accept '*/*', Connection
\* 'close' and Accept-Encoding 'gzip,deflate' and no Content-Length; each of
\* these defaults is applied only when the request does not already carry
\* that header, Connection only when no agent is resolved, Accept-Encoding
\* only when compress is true.
C15_ProjectionDefaults ==
    (ev.op = "getNodeRequestOptions" /\ ev.ok) =>
        LET req == msgs[ev.src]
            own(name) == ValuesOf(req.headers.map, name)
            out(name) == ValuesOf(ev.opts.headers, name)
        IN /\ PlainHttps(req) =>
                /\ out(Accept) = <<AnyType>>
                /\ out(Connection) = <<Close>>
                /\ out(AcceptEncoding) = <<GzipDeflate>>
                /\ out(ContentLength) = <<>>
           /\ out(Accept) = IF own(Accept) # <<>> THEN own(Accept)
                            ELSE <<AnyType>>
           /\ out(Connection) =
                  IF own(Connection) # <<>> THEN own(Connection)
                  ELSE IF req.agent = "undefined" THEN <<Close>> ELSE <<>>
           /\ out(AcceptEncoding) =
                  IF own(AcceptEncoding) # <<>> THEN own(AcceptEncoding)
                  ELSE IF req.compress = "true" THEN <<GzipDeflate>>
                  ELSE <<>>

\* C15 witness: the options of the request made from the https URL alone
C15_Witness ==
    /\ ev.op = "getNodeRequestOptions" /\ ev.ok
    /\ PlainHttps(msgs[ev.src])
    /\ ValuesOf(ev.opts.headers, Connection) = <<Close>>

\* C15 witness: the options of a request that carries its own Connection
C15_WitnessCarried ==
    /\ ev.op = "getNodeRequestOptions" /\ ev.ok
    /\ ValuesOf(msgs[ev.src].headers.map, Connection) = <<<<120>>>>
    /\ ValuesOf(ev.opts.headers, Connection) = <<<<120>>>>

\* the decimal digits of a length below 10
Digits(n) == <<48 + n>>

\* C16: getNodeRequestOptions sets Content-Length to the body's byte count
\* when the request has a body of known length, to "0" for a POST or PUT
\* request constructed without a body, and omits it otherwise.
C16_ContentLength ==
    (ev.op = "getNodeRequestOptions" /\ ev.ok) =>
        LET req  == msgs[ev.src]
            body == bodies[req.body].body
        IN ValuesOf(ev.opts.headers, ContentLength) =
               IF body.kind = "buffer" THEN <<Digits(Len(body.bytes))>>
               ELSE IF body.kind = "null"
                       /\ req.method \in {<<80,79,83,84>>, <<80,85,84>>}
               THEN <<<<48>>>>
               ELSE <<>>

\* the media type the content-type inference gives for a body: that of a
\* string, and none for a byte buffer, a byte stream or a body a source
\* request holds as bytes or as a stream
Inferred(body) == IF body.t = "string" THEN <<TextPlain>> ELSE <<>>

\* C17: when a Request is constructed with a body, its Content-Type equals
\* the caller-supplied Content-Type (any casing) if one was supplied, and
\* otherwise the media type inferred from the body (text/plain;charset=UTF-8
\* for a string) or is absent when inference gives null; an existing
\* Content-Type is never overwritten or given a second value.
C17_RequestContentType ==
    [][ (ev'.op = "new Request" /\ ev'.ok /\ BodyGiven(ev')) =>
          LET supplied ==
                  ValuesOf(IF ev'.init.headers.given THEN ev'.init.headers.map
                           ELSE IF ev'.src # 0 THEN msgs[ev'.src].headers.map
                           ELSE <<>>, ContentType)
          IN ValuesOf(Newest(msgs').headers.map, ContentType) =
                 IF supplied # <<>> THEN supplied
                 ELSE Inferred(ev'.init.body)
      ]_vars

\* C18: Response.clone() on a response with an unconsumed body returns a
\* new Response whose status, status text, header content, origin URL and
\* redirect counter equal the original's and whose body drains to the same
\* bytes as the original's.
C18_ResponseCloneCopies ==
    [][ (/\ ev'.op = "Response.clone" /\ msgs[ev'.src].body # 0
         /\ ~ev'.used)
        => /\ ev'.ok
           /\ Len(msgs') = Len(msgs) + 1
           /\ LET src == msgs[ev'.src]
                  new == Newest(msgs')
              IN /\ new.type = "Response"
                 /\ new.status = src.status
                 /\ new.statusText = src.statusText
                 /\ new.headers.map = src.headers.map
                 /\ new.url = src.url
                 /\ new.counter = src.counter
                 /\ new.body # 0
                 /\ bodies'[new.body].body = bodies[src.body].body
      ]_vars

\* C19: a message made from another message or from a Headers initializer
\* holds its own header storage: a later set, append or delete on one
\* message's headers is never observable through another's.
C19_HeadersNotShared ==
    [][ ev'.op \in {"headers.set", "headers.append", "headers.delete"} =>
          /\ Len(msgs') = Len(msgs)
          /\ \A k \in 1..Len(msgs) :
                 k # ev'.src => msgs'[k].headers.map = msgs[k].headers.map
      ]_vars

\* C19 witness: a set on the headers of a clone has left it with a header
\* its source does not have
C19_Witness ==
    /\ ev.op = "headers.set" /\ ev.ok
    /\ msgs[ev.src].cloneOf # 0
    /\ ValuesOf(msgs[ev.src].headers.map, <<65>>) = <<<<120>>>>
    /\ ValuesOf(msgs[msgs[ev.src].cloneOf].headers.map, <<65>>) = <<>>

\* C19 witness: a delete on the headers of a source has left its clone
\* with the header
C19_WitnessDelete ==
    /\ ev.op = "headers.delete" /\ ev.ok
    /\ \E k \in 1..Len(msgs) :
           /\ msgs[k].cloneOf = ev.src
           /\ ValuesOf(msgs[k].headers.map, <<65>>) # <<>>
           /\ ValuesOf(msgs[ev.src].headers.map, <<65>>) = <<>>

\* C20: Response construction populates Content-Type by the same inference
\* as Request construction: for a body given as a raw byte buffer or a byte
\* stream and no Content-Type in the options the Response has no
\* Content-Type header; for a string body it has text/plain;charset=UTF-8.
C20_ResponseContentType ==
    [][ (/\ ev'.op = "new Response"
         /\ ev'.init.body.t \in {"string", "buffer", "stream"}
         /\ ValuesOf(ev'.init.headers.map, ContentType) = <<>>)
        => ValuesOf(Newest(msgs').headers.map, ContentType) =
               Inferred(ev'.init.body)
      ]_vars

\* C21: getNodeRequestOptions raises an error and returns no options
\* whenever the request's target lacks a scheme or a host or its scheme is
\* neither http nor https; it returns options only for absolute http and
\* https targets, and a failed projection leaves the request unchanged.
C21_ProjectionRejectsTargets ==
    [][ ev'.op = "getNodeRequestOptions" =>
          /\ ev'.ok = (msgs[ev'.src].url \in {"https://example.com/x",
                                              "http://example.com/x"})
          /\ ~ev'.ok => (ev'.opts = NoOptions /\ msgs' = msgs)
      ]_vars

\* C21 witness: the projection of a request with a relative target has
\* failed
C21_Witness ==
    /\ ev.op = "getNodeRequestOptions" /\ ~ev.ok
    /\ msgs[ev.src].url = "/x"

\* C21 witness: the projection of a request with an ftp target has failed
C21_WitnessScheme ==
    /\ ev.op = "getNodeRequestOptions" /\ ~ev.ok
    /\ msgs[ev.src].url = "ftp://example.com/x"

\* the cancellation handle a construction resolves to: the override's when
\* the options give one, else the source request's, else null
Handle(e) ==
    IF e.init.signal # "undefined" THEN e.init.signal
    ELSE IF e.src # 0 THEN msgs[e.src].signal ELSE "null"

\* C22: the cancellation handle of a constructed Request is the override
\* when the options give one (an explicit null clears the source's handle),
\* otherwise the source request's handle, otherwise null; construction
\* fails when the resolved handle is non-null and has not the AbortSignal
\* shape.
C22_SignalResolution ==
    [][ ev'.op = "new Request" =>
          /\ Handle(ev') \notin {"null", "AbortSignal"} =>
                 (~ev'.ok /\ msgs' = msgs)
          /\ ev'.ok => (/\ Len(msgs') = Len(msgs) + 1
                        /\ Newest(msgs').signal = Handle(ev'))
      ]_vars

\* C22 witness: an explicit null has cleared the handle of the source
C22_Witness ==
    /\ ev.op = "new Request" /\ ev.ok /\ ev.src # 0
    /\ ev.init.signal = "null"
    /\ msgs[ev.src].signal = "AbortSignal"
    /\ Newest(msgs).signal = "null"

\* C22 witness: a copy without override has the handle of its source
C22_WitnessSource ==
    /\ ev.op = "new Request" /\ ev.ok /\ ev.src # 0
    /\ ev.init.signal = "undefined"
    /\ Newest(msgs).signal = "AbortSignal"

\* C22 witness: an override that is no AbortSignal has made the
\* construction from a source fail
C22_WitnessRejected ==
    /\ ev.op = "new Request" /\ ~ev.ok /\ ev.src # 0
    /\ ev.init.signal = "object"
    /\ msgs[ev.src].method = <<80,79,83,84>>
    /\ ~ev.used

\* C24: Response.redirected is a boolean that is true exactly when the
\* redirect counter of the response is greater than zero, and false when
\* the counter is zero or was not supplied.
C24_RedirectedIsCounterPositive ==
    ev.op = "Response.redirected" =>
        ev.opts = [t |-> "boolean",
                   v |-> IF msgs[ev.src].counter > 0 THEN 1 ELSE 0]

-----------------------------------------------------------------------------
(* Properties of create_user (SpecUsers) *)

\* C26: for any interleaving of two concurrent create_user requests that
\* carry the same username, both requests complete with a response, both
\* responses carry the same stored user (same _id), and the store never
\* holds two users with that username.
C26_ConcurrentCreateUser ==
    /\ \A r \in 1..Len(reqs) : reqs[r].pc # "rejected"
    /\ \A r, q \in 1..Len(reqs) :
           (/\ reqs[r].pc = "done" /\ reqs[q].pc = "done"
            /\ reqs[r].user.username = reqs[q].user.username)
           => /\ reqs[r].res._id = reqs[q].res._id
              /\ \E i \in 1..Len(db.users) : db.users[i] = reqs[r].res
    /\ \A i, j \in 1..Len(db.users) :
           db.users[i].username = db.users[j].username => i = j

====
